---- MODULE Spec2Model ----
(***************************************************************************)
(* Model of the dialog kit (useDialog, DialogWrapper, DialogTrigger,       *)
(* DialogContent, getDialogSizeStyles, getDialogPlacementStyles) and of    *)
(* the sign-up form's submit path (SignUpForm, handleSubmit).              *)
(*                                                                         *)
(* An optional value (a prop that may be absent, a function result that    *)
(* may be undefined) is the empty sequence when absent and a one-element   *)
(* sequence when present.                                                  *)
(***************************************************************************)
EXTENDS Integers, Sequences, FiniteSets, TLC

VARIABLES
    props,            \* UseDialogProps handed to DialogWrapper by the caller
    mounted,          \* is the DialogWrapper mounted
    uncontrolledOpen, \* the useState cell of useDialog
    dialog,           \* the value published through DialogContext.Provider
    trigger,          \* what DialogTrigger rendered (its data-state)
    content,          \* what DialogContent rendered (null or the portal tree)
    styles,           \* sizeStyles / placementStyles computed by DialogContent
    cbArg,            \* argument the caller's onOpenChange got in the last step
    lastEvent,        \* the event handled in the last step
    signUpProps,      \* props of SignUpForm (is onSuccess supplied)
    submissions,      \* one record per submit of the sign-up form
    errors,           \* react-hook-form field errors set through setError
    httpError         \* the useState cell fed by useStoreFetch's onError

dialogVars == <<props, mounted, uncontrolledOpen, dialog, trigger, content,
                styles, cbArg, lastEvent>>
signUpVars == <<signUpProps, submissions, errors, httpError>>
vars == <<props, mounted, uncontrolledOpen, dialog, trigger, content, styles,
          cbArg, lastEvent, signUpProps, submissions, errors, httpError>>

None == <<>>
Some(v) == <<v>>

\* a ?? b
Coalesce(a, b) == IF a = None THEN b ELSE a[1]

-----------------------------------------------------------------------------
(* Inputs *)

OptBool == {None, Some(TRUE), Some(FALSE)}

\* the four DialogSize literals, absent, and a value outside the type
SizeInputs == {None, Some("small"), Some("medium"), Some("large"),
               Some("screen"), Some("huge")}

\* the two DialogPlacement literals, absent, and a value outside the type
PlacementInputs == {None, Some("top"), Some("bottom"), Some("left")}

UseDialogProps ==
    [open : OptBool, onOpenChange : BOOLEAN, initialOpen : OptBool,
     closeOutside : OptBool, size : SizeInputs, placement : PlacementInputs]

-----------------------------------------------------------------------------
(* Pure style mappings *)

getDialogSizeStyles(size) ==
    IF size = Some("small") THEN Some([width |-> "420px"])
    ELSE IF size = Some("medium") THEN Some([width |-> "50%"])
    ELSE IF size = Some("large") THEN Some([width |-> "75%"])
    ELSE IF size = Some("screen") THEN Some([width |-> "91.5%"])
    ELSE Some([width |-> "420px"])

\* the switch has no default branch: any other value falls off the end of
\* the function, which returns undefined
getDialogPlacementStyles(placement) ==
    IF placement = Some("top") THEN Some([marginTop |-> "10vh"])
    ELSE IF placement = Some("bottom") THEN Some([bottom |-> 24])
    ELSE None

-----------------------------------------------------------------------------
(* useDialog *)

\* useFloating({open: uncontrolledOpen, onOpenChange: setControlledOpen ?? setOpen})
useFloating(p, u) ==
    [open |-> u,
     onOpenChange |-> IF p.onOpenChange THEN "setControlledOpen"
                      ELSE "setUncontrolledOpen"]

\* useClick left enabled whatever the ownership mode
useClick_always(p) == [enabled |-> TRUE]

\* useClick(context, {enabled: controlledOpen == null})
useClick(p) == [enabled |-> (p.open = None)]

\* useDismiss(context, {enabled: !!closeOutside}), closeOutside = true by default
useDismiss(p) == [enabled |-> Coalesce(p.closeOutside, TRUE)]

\* useDialog publishing the local state even when a controlled value is given
useDialog_local(p, u) ==
    [open |-> u,
     setOpen |-> IF p.onOpenChange THEN "setControlledOpen"
                 ELSE "setUncontrolledOpen",
     context |-> useFloating(p, u),
     click |-> useClick(p),
     dismiss |-> useDismiss(p),
     placement |-> Coalesce(p.placement, "bottom"),
     size |-> p.size]

useDialog(p, u) ==
    [open |-> Coalesce(p.open, u),
     setOpen |-> IF p.onOpenChange THEN "setControlledOpen"
                 ELSE "setUncontrolledOpen",
     context |-> useFloating(p, u),
     click |-> useClick(p),
     dismiss |-> useDismiss(p),
     placement |-> Coalesce(p.placement, "bottom"),
     size |-> p.size]

-----------------------------------------------------------------------------
(* Render components *)

DialogTrigger(d) == [dataState |-> IF d.open THEN "open" ELSE "closed"]

\* the two style records are computed before the early return
DialogContent(d) ==
    LET sizeStyles == getDialogSizeStyles(d.size)
        placementStyles == getDialogPlacementStyles(Some(d.placement))
    IN [sizeStyles |-> sizeStyles,
        placementStyles |-> placementStyles,
        node |-> IF ~d.context.open THEN None
                 ELSE Some([portal |-> TRUE, lockScroll |-> TRUE,
                            focusManager |-> TRUE,
                            css |-> <<sizeStyles, placementStyles>>])]

\* DialogWrapper renders the provider with Trigger and Content below it
DialogWrapper(p, u) ==
    LET d == useDialog(p, u)
        c == DialogContent(d)
    IN /\ dialog' = Some(d)
       /\ trigger' = Some(DialogTrigger(d))
       /\ content' = c.node
       /\ styles' = [sizeStyles |-> c.sizeStyles,
                     placementStyles |-> c.placementStyles]

\* what calling one of the two setters with v does
CallSetter(setter, v, u) ==
    [uncontrolledOpen |-> IF setter = "setUncontrolledOpen" THEN v ELSE u,
     cbArg |-> IF setter = "setControlledOpen" THEN Some(v) ELSE None]

-----------------------------------------------------------------------------
(* Dialog: initial state and events *)

NoSubmissions ==
    /\ signUpProps = [onSuccess |-> FALSE]
    /\ submissions = <<>>
    /\ errors = [repeatPassword |-> None, password |-> None]
    /\ httpError = None

DialogInit ==
    /\ props \in UseDialogProps
    /\ mounted = TRUE
    /\ uncontrolledOpen = Coalesce(props.initialOpen, FALSE)
    /\ dialog = Some(useDialog(props, uncontrolledOpen))
    /\ trigger = Some(DialogTrigger(useDialog(props, uncontrolledOpen)))
    /\ content = DialogContent(useDialog(props, uncontrolledOpen)).node
    /\ styles = [sizeStyles |->
                    DialogContent(useDialog(props, uncontrolledOpen)).sizeStyles,
                 placementStyles |->
                    DialogContent(useDialog(props, uncontrolledOpen)).placementStyles]
    /\ cbArg = None
    /\ lastEvent = [type |-> "mount", arg |-> None]

Init == DialogInit /\ NoSubmissions

\* a state update followed by the re-render it causes
Update(r, ev) ==
    /\ uncontrolledOpen' = r.uncontrolledOpen
    /\ cbArg' = r.cbArg
    /\ lastEvent' = ev
    /\ DialogWrapper(props, r.uncontrolledOpen)
    /\ UNCHANGED <<props, mounted>>

Unhandled == [uncontrolledOpen |-> uncontrolledOpen, cbArg |-> None]

\* a descendant calls the setOpen it reads from the context
SetOpen(v) ==
    /\ mounted
    /\ Update(CallSetter(dialog[1].setOpen, v, uncontrolledOpen),
              [type |-> "setOpen", arg |-> Some(v)])

\* a click on the element DialogTrigger cloned: useClick toggles the
\* floating context's open value when enabled
TriggerClick ==
    /\ mounted
    /\ Update(IF dialog[1].click.enabled
              THEN CallSetter(dialog[1].context.onOpenChange,
                              ~dialog[1].context.open, uncontrolledOpen)
              ELSE Unhandled,
              [type |-> "click", arg |-> None])

\* a pointer press outside the panel and the trigger: useDismiss listens
\* only while enabled and while the floating context is open
OutsidePointer ==
    /\ mounted
    /\ Update(IF dialog[1].dismiss.enabled /\ dialog[1].context.open
              THEN CallSetter(dialog[1].context.onOpenChange, FALSE,
                              uncontrolledOpen)
              ELSE Unhandled,
              [type |-> "outside", arg |-> None])

EscapeKey ==
    /\ mounted
    /\ Update(IF dialog[1].dismiss.enabled /\ dialog[1].context.open
              THEN CallSetter(dialog[1].context.onOpenChange, FALSE,
                              uncontrolledOpen)
              ELSE Unhandled,
              [type |-> "escape", arg |-> None])

\* the caller of a controlled dialog re-renders it with another open value
CallerSetOpen(v) ==
    /\ mounted
    /\ props.open # None
    /\ props' = [props EXCEPT !.open = Some(v)]
    /\ cbArg' = None
    /\ lastEvent' = [type |-> "caller", arg |-> Some(v)]
    /\ DialogWrapper(props', uncontrolledOpen)
    /\ UNCHANGED <<uncontrolledOpen, mounted>>

\* the wrapper is unmounted: its subtree and its state cell go away
Unmount ==
    /\ mounted
    /\ mounted' = FALSE
    /\ uncontrolledOpen' = FALSE
    /\ dialog' = None
    /\ trigger' = None
    /\ content' = None
    /\ cbArg' = None
    /\ lastEvent' = [type |-> "unmount", arg |-> None]
    /\ UNCHANGED <<props, styles>>

\* the wrapper is mounted again: a fresh state cell seeded from initialOpen
Mount ==
    /\ ~mounted
    /\ mounted' = TRUE
    /\ uncontrolledOpen' = Coalesce(props.initialOpen, FALSE)
    /\ cbArg' = None
    /\ lastEvent' = [type |-> "mount", arg |-> None]
    /\ DialogWrapper(props, Coalesce(props.initialOpen, FALSE))
    /\ UNCHANGED props

Next ==
    \/ (\E v \in BOOLEAN : SetOpen(v)) /\ UNCHANGED signUpVars
    \/ TriggerClick /\ UNCHANGED signUpVars
    \/ OutsidePointer /\ UNCHANGED signUpVars
    \/ EscapeKey /\ UNCHANGED signUpVars
    \/ (\E v \in BOOLEAN : CallerSetOpen(v)) /\ UNCHANGED signUpVars
    \/ Unmount /\ UNCHANGED signUpVars
    \/ Mount /\ UNCHANGED signUpVars

Spec == Init /\ [][Next]_vars

-----------------------------------------------------------------------------
(* Sign-up form *)

MaxSubmits == 2

\* every field is registered with required: true, so a submitted value is a
\* non-empty string
Emails == {"a@b.c"}
Usernames == {"alice"}
Passwords == {"pw1", "pw2"}

FormProps ==
    [email : Emails, username : Usernames, password : Passwords,
     repeatPassword : Passwords]

\* structuredClone(data) followed by delete mutable.repeatPassword
WithoutRepeatPassword(data) ==
    [k \in (DOMAIN data) \ {"repeatPassword"} |-> data[k]]

\* handleSubmit sending the form data as it is, repeatPassword included
handleSubmit_noDelete(data) ==
    IF data.password # data.repeatPassword
    THEN [setError |-> <<[field |-> "repeatPassword",
                          message |-> "Password mismatch"]>>,
          fetch |-> <<>>]
    ELSE [setError |-> <<>>,
          fetch |-> <<data>>]

\* the calls handleSubmit makes: setError(field, message) and fetch(payload)
handleSubmit(data) ==
    IF data.password # data.repeatPassword
    THEN [setError |-> <<[field |-> "repeatPassword",
                          message |-> "Password mismatch"]>>,
          fetch |-> <<>>]
    ELSE [setError |-> <<>>,
          fetch |-> <<WithoutRepeatPassword(data)>>]

\* the statement after `await handleSubmit(data)` in the Form's onSubmit:
\* onSuccess?.()
onSubmit(p) == IF p.onSuccess THEN 1 ELSE 0

\* useStoreFetch reports the outcome of the request to the callbacks it was
\* given: onSuccess on success, onError on failure
useStoreFetch(p, ok) ==
    [onSuccess |-> IF ok /\ p.onSuccess THEN 1 ELSE 0,
     onError |-> IF ok THEN None ELSE Some("error")]

ApplySetError(e, calls) ==
    IF calls = <<>> THEN e
    ELSE [e EXCEPT ![calls[1].field] = Some(calls[1].message)]

SignUpInit ==
    /\ props = [open |-> None, onOpenChange |-> FALSE, initialOpen |-> None,
                closeOutside |-> None, size |-> None, placement |-> None]
    /\ DialogInit
    /\ signUpProps \in [onSuccess : BOOLEAN]
    /\ submissions = <<>>
    /\ errors = [repeatPassword |-> None, password |-> None]
    /\ httpError = None

\* the form is submitted with data: handleSubmit runs up to its return or
\* up to the await of fetch; when it returns at once, onSubmit goes on
Submit(data) ==
    LET h == handleSubmit(data)
        pending == h.fetch # <<>>
    IN /\ Len(submissions) < MaxSubmits
       /\ errors' = ApplySetError(errors, h.setError)
       /\ submissions' = Append(submissions,
              [data |-> data,
               setError |-> h.setError,
               requests |-> h.fetch,
               status |-> IF pending THEN "pending" ELSE "returned",
               threw |-> FALSE,
               onSuccessCalls |-> IF pending THEN 0 ELSE onSubmit(signUpProps)])
       /\ UNCHANGED <<signUpProps, httpError>>

\* the sign-up request of submission i succeeds: useStoreFetch calls its
\* onSuccess, fetch resolves, handleSubmit returns and onSubmit goes on
FetchSucceeds(i) ==
    /\ submissions[i].status = "pending"
    /\ submissions' = [submissions EXCEPT
           ![i].status = "succeeded",
           ![i].onSuccessCalls =
               @ + useStoreFetch(signUpProps, TRUE).onSuccess
                 + onSubmit(signUpProps)]
    /\ UNCHANGED <<signUpProps, errors, httpError>>

\* the sign-up request of submission i fails: useStoreFetch calls onError
\* (setHttpError); fetch then either resolves, and onSubmit goes on, or
\* rejects, and onSubmit throws before it reaches onSuccess?.()
FetchFails(i, rejects) ==
    /\ submissions[i].status = "pending"
    /\ httpError' = useStoreFetch(signUpProps, FALSE).onError
    /\ submissions' = [submissions EXCEPT
           ![i].status = "failed",
           ![i].threw = rejects,
           ![i].onSuccessCalls =
               @ + useStoreFetch(signUpProps, FALSE).onSuccess
                 + (IF rejects THEN 0 ELSE onSubmit(signUpProps))]
    /\ UNCHANGED <<signUpProps, errors>>

SignUpNext ==
    \/ (\E data \in FormProps : Submit(data)) /\ UNCHANGED dialogVars
    \/ (\E i \in DOMAIN submissions : FetchSucceeds(i)) /\ UNCHANGED dialogVars
    \/ (\E i \in DOMAIN submissions, rejects \in BOOLEAN :
            FetchFails(i, rejects)) /\ UNCHANGED dialogVars

SpecSignUp == SignUpInit /\ [][SignUpNext]_vars

-----------------------------------------------------------------------------
(* Properties *)

InternalEvents == {"setOpen", "click", "outside", "escape"}

\* C1: while a controlled open value is supplied, the open value published
\* in the context, and the trigger's data-state, equal the supplied value
\* after any sequence of clicks, dismissals, setOpen calls and re-renders.
C1_ControlledOpenPublished ==
    (mounted /\ props.open # None) =>
        /\ dialog[1].open = props.open[1]
        /\ trigger[1].dataState = (IF props.open[1] THEN "open" ELSE "closed")

\* C1 witness: a controlled dialog whose local state was driven, by an
\* internal event, to the opposite of the supplied value.
C1_Witness ==
    /\ mounted
    /\ props.open # None
    /\ lastEvent.type \in InternalEvents
    /\ uncontrolledOpen # props.open[1]
    /\ uncontrolledOpen # Coalesce(props.initialOpen, FALSE)

\* C2: Content renders nothing when the published open value is false and
\* exactly one portal-rooted panel when it is true, in both ownership modes.
C2_ContentIffOpen ==
    mounted =>
        IF dialog[1].open
        THEN content # None /\ Len(content) = 1 /\ content[1].portal
        ELSE content = None

\* C3: with a controlled open value supplied, with or without a handler,
\* a setOpen call or an open-change request of an interaction goes to the
\* caller's handler only and leaves the local open state unchanged.
C3_ControlledNeverMutatesLocal ==
    [][(mounted /\ props.open # None /\ lastEvent'.type \in InternalEvents) =>
          /\ uncontrolledOpen' = uncontrolledOpen
          /\ (lastEvent'.type = "setOpen" /\ props.onOpenChange) =>
                 cbArg' = lastEvent'.arg]_vars

\* C4: without a controlled open value, with or without a handler, calling
\* the exposed setter with the negation of the current open value flips the
\* published open value, and Content is mounted exactly when it is open.
C4_UncontrolledSetterToggles ==
    [][(mounted /\ props.open = None /\ lastEvent'.type = "setOpen"
        /\ lastEvent'.arg = Some(~dialog[1].open)) =>
          /\ dialog'[1].open = ~dialog[1].open
          /\ (content' # None) = dialog'[1].open]_vars

\* C5: on an open dialog, an outside-pointer event never closes it when
\* closeOutside is false, and always closes it when closeOutside is true or
\* omitted: the uncontrolled dialog becomes closed, the controlled caller's
\* handler is invoked with false.
C5_OutsidePointerCloses ==
    [][(mounted /\ dialog[1].open /\ lastEvent'.type = "outside") =>
          IF props.closeOutside = Some(FALSE)
          THEN /\ uncontrolledOpen' = uncontrolledOpen
               /\ dialog'[1].open
               /\ cbArg' = None
          ELSE IF props.open = None
               THEN ~dialog'[1].open
               ELSE cbArg' = Some(FALSE)]_vars

\* C6 as stated: with {open: true, onOpenChange: cb}, a click on the
\* Trigger invokes cb with false and the published open value stays true.
C6_ClickInvokesHandler ==
    [][(mounted /\ props.open = Some(TRUE) /\ props.onOpenChange
        /\ lastEvent'.type = "click") =>
          /\ cbArg' = Some(FALSE)
          /\ dialog'[1].open]_vars

\* C6 amended: with {open: true, onOpenChange: cb}, a click on the Trigger
\* invokes no handler and changes no state, and the published open value
\* and the trigger's data-state stay open through every event other than
\* the caller changing the supplied open.
C6_ClickIgnoredWhenControlled ==
    [][(mounted /\ props.open = Some(TRUE) /\ props.onOpenChange) =>
          /\ (lastEvent'.type = "click") =>
                 /\ cbArg' = None
                 /\ uncontrolledOpen' = uncontrolledOpen
          /\ (lastEvent'.type \in InternalEvents) =>
                 /\ dialog'[1].open
                 /\ trigger'[1].dataState = "open"]_vars

\* C6 witness: the trigger of a mounted {open: true, onOpenChange: cb}
\* dialog has just been clicked.
C6_Witness ==
    /\ mounted
    /\ props.open = Some(TRUE)
    /\ props.onOpenChange
    /\ lastEvent.type = "click"

\* C7: no state has the dialog closed or unmounted with the panel, the
\* scroll lock or the focus trap still held.
C7_ReleasedWhenClosed ==
    (~mounted \/ ~dialog[1].open) => content = None

\* C8: the size styles are width 420px / 50% / 75% / 91.5% for small /
\* medium / large / screen and width 420px for any other or absent size;
\* the placement styles are marginTop 10vh for top, bottom 24 for bottom and
\* bottom 24 for any other or absent placement; a style record is always
\* returned.
C8_StyleMappings ==
    /\ styles.sizeStyles =
          Some([width |->
                  IF props.size = Some("medium") THEN "50%"
                  ELSE IF props.size = Some("large") THEN "75%"
                  ELSE IF props.size = Some("screen") THEN "91.5%"
                  ELSE "420px"])
    /\ styles.placementStyles =
          IF props.placement = Some("top") THEN Some([marginTop |-> "10vh"])
          ELSE Some([bottom |-> 24])

\* C9: a submission whose password differs from repeatPassword records the
\* field error "Password mismatch" on repeatPassword, sends no request and
\* does not throw; a submission where they are equal sends exactly one
\* request, whose payload is email, username and password without
\* repeatPassword.
C9_SubmitValidation ==
    \A i \in DOMAIN submissions :
        LET s == submissions[i] IN
        IF s.data.password # s.data.repeatPassword
        THEN /\ s.setError = <<[field |-> "repeatPassword",
                                message |-> "Password mismatch"]>>
             /\ errors.repeatPassword = Some("Password mismatch")
             /\ s.requests = <<>>
             /\ ~s.threw
        ELSE /\ Len(s.requests) = 1
             /\ DOMAIN s.requests[1] = {"email", "username", "password"}
             /\ s.requests[1].email = s.data.email
             /\ s.requests[1].username = s.data.username
             /\ s.requests[1].password = s.data.password

\* C9 witness: one submission was rejected for mismatch and another one
\* sent its request.
C9_Witness ==
    \E i, j \in DOMAIN submissions :
        /\ submissions[i].data.password # submissions[i].data.repeatPassword
        /\ submissions[j].data.password = submissions[j].data.repeatPassword
        /\ submissions[j].status # "returned"

\* C10: onSuccess is invoked at most once per submission, and only for a
\* submission whose request was sent and succeeded.
C10_OnSuccessOnlyAfterSuccess ==
    \A i \in DOMAIN submissions :
        /\ submissions[i].onSuccessCalls <= 1
        /\ submissions[i].onSuccessCalls > 0 =>
               /\ submissions[i].requests # <<>>
               /\ submissions[i].status = "succeeded"

====
